---- MODULE Spec2Model ----
(***************************************************************************)
(* Resolution and filtering engine of the injectable container:            *)
(* registry lookup (get_namespace_injectables), group filtering            *)
(* (filter_by_group) and single-match disambiguation                       *)
(* (resolve_single_injectable), over the process-wide registry that        *)
(* load_injection_container populates.                                     *)
(***************************************************************************)
EXTENDS Integers, Sequences, FiniteSets, TLC

VARIABLES
    NAMESPACES,   \* InjectionContainer.NAMESPACES: namespace name -> Namespace
    GROUPS,       \* InjectionContainer.GROUPS: None or a list of group labels
    scanned,      \* files already scanned by previous load calls
    op,           \* name of the last function called
    args,         \* its arguments
    ret           \* its outcome: what it returned or raised, and its side effects

vars == <<NAMESPACES, GROUPS, scanned, op, args, ret>>

-----------------------------------------------------------------------------
(* Bounds of the model *)

MaxRef == 2        \* distinct injectables with identical fields
MaxMatches == 3    \* size of a candidate set handed to filter / resolve
MaxExclude == 2    \* length of a per-call exclude_groups list

-----------------------------------------------------------------------------
(* Python values *)

\* None where a string (group label, namespace) is expected
None == "None"

\* an optional list: None or a list
NoneList == [is_none |-> TRUE, items |-> <<>>]
List(s) == [is_none |-> FALSE, items |-> s]

\* an optional set: None or a set
NoneSet == [is_none |-> TRUE, elems |-> {}]
Set(S) == [is_none |-> FALSE, elems |-> S]

\* `x or []` for an optional list: None and [] are both falsy
OrEmptyList(x) == IF x.is_none \/ x.items = <<>> THEN <<>> ELSE x.items

\* `x in lst`
In(x, lst) == \E i \in 1..Len(lst) : lst[i] = x

\* dict.get(key, default)
DictGetOr(d, key, default) == IF key \in DOMAIN d THEN d[key] ELSE default

\* registry.get(key) on a dict of sets: the entry, or None when the key is absent
DictGet(d, key) == IF key \in DOMAIN d THEN Set(d[key]) ELSE NoneSet

\* outcome of a call
Return(v) == [raised |-> "none", value |-> v, consulted |-> {}, warned |-> FALSE]
Raise(e) == [raised |-> e, value |-> NoneSet, consulted |-> {}, warned |-> FALSE]

-----------------------------------------------------------------------------
(* Data *)

GroupLabels == {"new", "old"}

\* An Injectable record: group, primary flag; ref tells apart registrations
\* with identical fields (identity is by reference).
Injectable == [ref : 1..MaxRef, group : GroupLabels \cup {None}, primary : BOOLEAN]

\* objects without __bool__ / __len__ are truthy
Truthy(obj) == TRUE

CLASS == "class"
QUALIFIER == "qualifier"
RegistryType == {CLASS, QUALIFIER}

DEFAULT_NAMESPACE == "default"

\* a Namespace with nothing registered
EmptyNamespace == [class_registry |-> <<>>, qualifier_registry |-> <<>>]

\* candidate sets handed to the pure functions
Candidates == {S \in SUBSET Injectable : Cardinality(S) <= MaxMatches}

RECURSIVE SeqsUpTo(_, _)
SeqsUpTo(S, n) ==
    IF n = 0 THEN {<<>>}
    ELSE LET shorter == SeqsUpTo(S, n - 1)
         IN shorter \cup {Append(s, x) : s \in {t \in shorter : Len(t) = n - 1}, x \in S}

ExcludeArgs == {NoneList} \cup {List(s) : s \in SeqsUpTo(GroupLabels, MaxExclude)}
GroupArgs == GroupLabels \cup {None}

-----------------------------------------------------------------------------
(* injection_utils.py *)

\* a dependency is a string (qualifier) or a type
Dependencies == [is_str : BOOLEAN, name : {"Processor", "UnrelatedClass"}]

get_dependency_registry_type(dependency) ==
    IF dependency.is_str THEN QUALIFIER ELSE CLASS

\* variant: indexes NAMESPACES[namespace] instead of NAMESPACES.get(namespace)
get_namespace_injectables_subscript(dependency_name, registry_type, namespace) ==
    IF namespace \notin DOMAIN NAMESPACES
    THEN [Raise("KeyError") EXCEPT !.warned = (Cardinality(DOMAIN NAMESPACES) = 0)]
    ELSE LET injection_namespace == NAMESPACES[namespace]
             registry == IF registry_type = CLASS
                         THEN injection_namespace.class_registry
                         ELSE injection_namespace.qualifier_registry
         IN [Return(DictGet(registry, dependency_name)) EXCEPT
                !.consulted = {IF registry_type = CLASS THEN "class_registry"
                                                        ELSE "qualifier_registry"}]

\* variant: the two registries swapped
get_namespace_injectables_swapped(dependency_name, registry_type, namespace) ==
    IF namespace \notin DOMAIN NAMESPACES
    THEN [Return(Set({})) EXCEPT !.warned = (Cardinality(DOMAIN NAMESPACES) = 0)]
    ELSE LET injection_namespace == NAMESPACES[namespace]
             registry == IF registry_type = CLASS
                         THEN injection_namespace.qualifier_registry
                         ELSE injection_namespace.class_registry
         IN [Return(DictGet(registry, dependency_name)) EXCEPT
                !.consulted = {IF registry_type = CLASS THEN "qualifier_registry"
                                                        ELSE "class_registry"}]

get_namespace_injectables(dependency_name, registry_type, namespace) ==
    LET warned == Cardinality(DOMAIN NAMESPACES) = 0
        found == namespace \in DOMAIN NAMESPACES
    IN IF ~found
       THEN [Return(Set({})) EXCEPT !.warned = warned]
       ELSE LET injection_namespace == NAMESPACES[namespace]
                which == IF registry_type = CLASS THEN "class_registry"
                                                  ELSE "qualifier_registry"
                registry == IF registry_type = CLASS
                            THEN injection_namespace.class_registry
                            ELSE injection_namespace.qualifier_registry
                injectables == DictGet(registry, dependency_name)
            IN [Return(injectables) EXCEPT !.warned = warned, !.consulted = {which}]

\* variant: ungrouped injectables are dropped by the container groups
_filter_by_container_groups_labelled_only(matches) ==
    LET container_groups == OrEmptyList(GROUPS)
    IN IF container_groups = <<>>
       THEN Return(matches)
       ELSE IF matches.is_none
       THEN Raise("TypeError")
       ELSE IF ~(\E i \in {m \in matches.elems : In(m.group, container_groups)} : Truthy(i))
       THEN Return(matches)
       ELSE Return(Set({inj \in matches.elems : In(inj.group, container_groups)}))

\* variant: the container groups always restrict, also when no candidate matches
_filter_by_container_groups_strict(matches) ==
    LET container_groups == OrEmptyList(GROUPS)
    IN IF container_groups = <<>>
       THEN Return(matches)
       ELSE IF matches.is_none
       THEN Raise("TypeError")
       ELSE Return(Set({inj \in matches.elems :
                           inj.group = None \/ In(inj.group, container_groups)}))

_filter_by_container_groups(matches) ==
    LET container_groups == OrEmptyList(GROUPS)
    IN IF container_groups = <<>>
       THEN Return(matches)
       ELSE IF matches.is_none
       THEN Raise("TypeError")
       ELSE IF ~(\E i \in {m \in matches.elems : In(m.group, container_groups)} : Truthy(i))
       THEN Return(matches)
       ELSE Return(Set({inj \in matches.elems :
                           inj.group = None \/ In(inj.group, container_groups)}))

\* variant: group=None selects only the ungrouped injectables
_filter_by_group_and_exclude_exact(matches, group, exclude_groups) ==
    LET exclude == OrEmptyList(exclude_groups)
    IN IF matches.is_none
       THEN Raise("TypeError")
       ELSE Return(Set({inj \in matches.elems :
                           inj.group = group /\ ~In(inj.group, exclude)}))

_filter_by_group_and_exclude(matches, group, exclude_groups) ==
    LET exclude == OrEmptyList(exclude_groups)
    IN IF matches.is_none
       THEN Raise("TypeError")
       ELSE Return(Set({inj \in matches.elems :
                           (group = None \/ inj.group = group)
                           /\ ~In(inj.group, exclude)}))

\* variant: the per-call selection runs before the container groups
filter_by_group_reversed(matches, group, exclude_groups) ==
    LET b == _filter_by_group_and_exclude(matches, group, exclude_groups)
    IN IF b.raised # "none" THEN b
       ELSE _filter_by_container_groups(b.value)

filter_by_group(matches, group, exclude_groups) ==
    LET a == _filter_by_container_groups(matches)
    IN IF a.raised # "none" THEN a
       ELSE _filter_by_group_and_exclude(a.value, group, exclude_groups)

\* variant: fails only when there is no primary, picks one of several primaries
resolve_single_injectable_any_primary(dependency_name, registry_type, matches) ==
    IF Cardinality(matches) = 1
    THEN Return(CHOOSE injectable \in matches : TRUE)
    ELSE LET primary_matches == {inj \in matches : inj.primary}
         IN IF Cardinality(primary_matches) = 0
            THEN Raise("InjectionError")
            ELSE Return(CHOOSE inj \in primary_matches : TRUE)

\* variant: without the single-candidate shortcut
resolve_single_injectable_no_shortcut(dependency_name, registry_type, matches) ==
    LET primary_matches == {inj \in matches : inj.primary}
    IN IF Cardinality(primary_matches) # 1
       THEN Raise("InjectionError")
       ELSE Return(CHOOSE inj \in primary_matches : TRUE)

resolve_single_injectable(dependency_name, registry_type, matches) ==
    IF Cardinality(matches) = 1
    THEN Return(CHOOSE injectable \in matches : TRUE)
    ELSE LET primary_matches == {inj \in matches : inj.primary}
         IN IF Cardinality(primary_matches) # 1
            THEN Raise("InjectionError")
            ELSE Return(CHOOSE inj \in primary_matches : TRUE)

-----------------------------------------------------------------------------
(* load_injection_container.py *)

\* directory of the file calling load_injection_container
CallerDir == <<"app">>

\* the search paths a caller passes: None, a relative path, an absolute path
NonePath == [is_none |-> TRUE, is_abs |-> FALSE, parts |-> <<>>]
SearchPaths == {NonePath,
                [is_none |-> FALSE, is_abs |-> FALSE, parts |-> <<"pkg">>],
                [is_none |-> FALSE, is_abs |-> TRUE, parts |-> <<"app", "pkg">>],
                [is_none |-> FALSE, is_abs |-> TRUE, parts |-> <<"app">>]}

\* the injectables declared in the project files (found by discovery)
Units == {
    [file |-> <<"app", "pkg", "processors.py">>, namespace |-> None, kind |-> CLASS,
     key |-> "Processor", inj |-> [ref |-> 1, group |-> None, primary |-> FALSE]],
    [file |-> <<"app", "pkg", "processors.py">>, namespace |-> None, kind |-> CLASS,
     key |-> "Processor", inj |-> [ref |-> 1, group |-> "new", primary |-> TRUE]],
    [file |-> <<"app", "pkg", "processors.py">>, namespace |-> None, kind |-> CLASS,
     key |-> "Processor", inj |-> [ref |-> 1, group |-> "old", primary |-> FALSE]],
    [file |-> <<"app", "pkg", "processors.py">>, namespace |-> None, kind |-> QUALIFIER,
     key |-> "Processor", inj |-> [ref |-> 1, group |-> "old", primary |-> TRUE]],
    [file |-> <<"app", "main.py">>, namespace |-> None, kind |-> CLASS,
     key |-> "UnrelatedClass", inj |-> [ref |-> 1, group |-> None, primary |-> TRUE]],
    [file |-> <<"app", "main.py">>, namespace |-> "other", kind |-> QUALIFIER,
     key |-> "Processor", inj |-> [ref |-> 1, group |-> "old", primary |-> FALSE]]}

IsPrefix(p, f) == Len(p) <= Len(f) /\ SubSeq(f, 1, Len(p)) = p

\* registry after registering the units us, unlabelled ones under default_namespace
Register(us, default_namespace) ==
    LET nsOf(u) == IF u.namespace = None THEN default_namespace ELSE u.namespace
        names == DOMAIN NAMESPACES \cup {nsOf(u) : u \in us}
        old(n) == DictGetOr(NAMESPACES, n, EmptyNamespace)
        reg(n, kind, prev) ==
            LET mine == {u \in us : nsOf(u) = n /\ u.kind = kind}
                keys == DOMAIN prev \cup {u.key : u \in mine}
            IN [k \in keys |->
                   DictGetOr(prev, k, {}) \cup {u.inj : u \in {v \in mine : v.key = k}}]
    IN [n \in names |->
           [class_registry |-> reg(n, CLASS, old(n).class_registry),
            qualifier_registry |-> reg(n, QUALIFIER, old(n).qualifier_registry)]]

\* InjectionContainer.load_dependencies_from
load_dependencies_from(search_path, default_namespace, groups) ==
    LET fresh == {u \in Units : IsPrefix(search_path, u.file) /\ u.file \notin scanned}
    IN /\ NAMESPACES' = Register(fresh, default_namespace)
       /\ scanned' = scanned \cup {u.file : u \in fresh}
       /\ GROUPS' = IF OrEmptyList(GROUPS) = <<>> /\ ~groups.is_none
                    THEN groups ELSE GROUPS

load_injection_container(search_path, default_namespace, groups) ==
    LET resolved == IF search_path.is_none THEN CallerDir
                    ELSE IF ~search_path.is_abs THEN CallerDir \o search_path.parts
                    ELSE search_path.parts
    IN load_dependencies_from(resolved, default_namespace, groups)

-----------------------------------------------------------------------------
(* State machine *)

NoArgs == [none |-> TRUE]

Init ==
    /\ NAMESPACES = <<>>
    /\ GROUPS = NoneList
    /\ scanned = {}
    /\ op = "init"
    /\ args = NoArgs
    /\ ret = Return(NoneSet)

GroupsArgs == {NoneList, List(<<>>), List(<<"new">>), List(<<"old">>),
               List(<<"new", "old">>)}

Load ==
    \E search_path \in SearchPaths, default_namespace \in {DEFAULT_NAMESPACE, "other"},
       groups \in GroupsArgs :
        /\ load_injection_container(search_path, default_namespace, groups)
        /\ op' = "load_injection_container"
        /\ args' = NoArgs
        /\ ret' = Return(NoneSet)

GetDependencyRegistryType ==
    \E dependency \in Dependencies :
        /\ op' = "get_dependency_registry_type"
        /\ args' = [dependency |-> dependency]
        /\ ret' = Return(get_dependency_registry_type(dependency))
        /\ UNCHANGED <<NAMESPACES, GROUPS, scanned>>

GetNamespaceInjectables ==
    \E dependency_name \in {"Processor", "UnrelatedClass", "Missing"},
       registry_type \in RegistryType,
       namespace \in {DEFAULT_NAMESPACE, "other", "missing"} :
        /\ op' = "get_namespace_injectables"
        /\ args' = [dependency_name |-> dependency_name,
                    registry_type |-> registry_type, namespace |-> namespace]
        /\ ret' = get_namespace_injectables(dependency_name, registry_type, namespace)
        /\ UNCHANGED <<NAMESPACES, GROUPS, scanned>>

\* filter_by_group on what the preceding lookup returned
FilterLookup ==
    /\ op = "get_namespace_injectables"
    /\ ret.raised = "none"
    /\ \E group \in GroupArgs, exclude_groups \in ExcludeArgs :
        /\ op' = "filter_by_group"
        /\ args' = [matches |-> ret.value, group |-> group,
                    exclude_groups |-> exclude_groups]
        /\ ret' = filter_by_group(ret.value, group, exclude_groups)
        /\ UNCHANGED <<NAMESPACES, GROUPS, scanned>>

Next ==
    \/ Load
    \/ GetDependencyRegistryType
    \/ GetNamespaceInjectables
    \/ FilterLookup

Spec == Init /\ [][Next]_vars

-----------------------------------------------------------------------------
(* filter_by_group as a pure function of a candidate set, the per-call
   arguments and InjectionContainer.GROUPS *)

InitFilter ==
    /\ NAMESPACES = <<>>
    /\ GROUPS \in GroupsArgs
    /\ scanned = {}
    /\ op = "init"
    /\ \E matches \in Candidates, group \in GroupArgs, exclude_groups \in ExcludeArgs :
           args = [matches |-> Set(matches), group |-> group,
                   exclude_groups |-> exclude_groups]
    /\ ret = Return(NoneSet)

FilterByGroup ==
    /\ op = "init"
    /\ op' = "filter_by_group"
    /\ ret' = filter_by_group(args.matches, args.group, args.exclude_groups)
    /\ UNCHANGED <<NAMESPACES, GROUPS, scanned, args>>

NextFilter == FilterByGroup

SpecFilter == InitFilter /\ [][NextFilter]_vars

-----------------------------------------------------------------------------
(* resolve_single_injectable as a pure function of a candidate set *)

InitResolve ==
    /\ NAMESPACES = <<>>
    /\ GROUPS = NoneList
    /\ scanned = {}
    /\ op = "init"
    /\ \E matches \in Candidates : args = [matches |-> matches]
    /\ ret = Return(NoneSet)

ResolveSingleInjectable ==
    /\ op = "init"
    /\ op' = "resolve_single_injectable"
    /\ ret' = resolve_single_injectable("TEST", CLASS, args.matches)
    /\ UNCHANGED <<NAMESPACES, GROUPS, scanned, args>>

NextResolve == ResolveSingleInjectable

SpecResolve == InitResolve /\ [][NextResolve]_vars

-----------------------------------------------------------------------------
(* Properties *)

Primaries(S) == {m \in S : m.primary}
ContainerGroups == IF GROUPS.is_none THEN <<>> ELSE GROUPS.items
NoExclude(e) == e.is_none \/ e.items = <<>>
Filtered == op = "filter_by_group"
Resolved == op = "resolve_single_injectable"
LookedUp == op = "get_namespace_injectables"
SomeCandidateInGroups == \E c \in args.matches.elems : In(c.group, ContainerGroups)

\* C1: whenever resolve_single_injectable returns a record r, r is one of the
\* candidates and either it is the only candidate or it is the only candidate
\* whose primary flag is true.
C1_ResolveNeverArbitrary ==
    (Resolved /\ ret.raised = "none") =>
        /\ ret.value \in args.matches
        /\ \/ Cardinality(args.matches) = 1
           \/ Primaries(args.matches) = {ret.value}

C1_Witness ==
    /\ Resolved /\ ret.raised = "none"
    /\ Cardinality(args.matches) = MaxMatches
    /\ ret.value.primary

\* C2: resolve_single_injectable raises InjectionError exactly when the
\* candidate set does not have exactly one element and the number of primary
\* candidates is not exactly one; otherwise it returns a record.
C2_ResolveFailsExactlyWhenAmbiguous ==
    Resolved =>
        /\ ret.raised \in {"none", "InjectionError"}
        /\ ret.raised = "InjectionError" <=>
               /\ Cardinality(args.matches) # 1
               /\ Cardinality(Primaries(args.matches)) # 1

C2_Witness ==
    /\ Resolved /\ ret.raised = "InjectionError"
    /\ Cardinality(Primaries(args.matches)) >= 2

\* C3: when GROUPS is non-empty, every record filter_by_group returns has
\* group None or a group that is a member of GROUPS, whatever the candidates
\* and the per-call arguments are.
C3_GroupsIsAllowList ==
    (Filtered /\ ContainerGroups # <<>> /\ ret.raised = "none") =>
        \A r \in ret.value.elems : r.group = None \/ In(r.group, ContainerGroups)

\* C4: when GROUPS is non-empty and some candidate's group is in GROUPS,
\* filter_by_group without group and exclude_groups returns exactly the
\* candidates whose group is None or a member of GROUPS.
C4_AllowListActive ==
    (/\ Filtered
     /\ ContainerGroups # <<>>
     /\ SomeCandidateInGroups
     /\ args.group = None
     /\ NoExclude(args.exclude_groups)) =>
        /\ ret.raised = "none"
        /\ ret.value = Set({c \in args.matches.elems :
                               c.group = None \/ In(c.group, ContainerGroups)})

C4_Witness ==
    /\ Filtered /\ ContainerGroups # <<>> /\ SomeCandidateInGroups
    /\ args.group = None /\ NoExclude(args.exclude_groups)
    /\ \E c \in args.matches.elems : c.group = None /\ c \in ret.value.elems
    /\ \E c \in args.matches.elems :
           /\ c.group # None /\ ~In(c.group, ContainerGroups)
           /\ c \notin ret.value.elems

C6_PerCallSelection ==
    (Filtered /\ ContainerGroups = <<>>) =>
        /\ ret.raised = "none"
        /\ ret.value =
               Set({c \in args.matches.elems :
                       /\ args.group = None \/ c.group = args.group
                       /\ \/ args.exclude_groups.is_none
                          \/ ~In(c.group, args.exclude_groups.items)})

C6_Witness ==
    /\ Filtered /\ ContainerGroups = <<>>
    /\ args.group = None
    /\ ~NoExclude(args.exclude_groups)
    /\ \E c \in ret.value.elems : c.group # None
    /\ \E c \in args.matches.elems : c \notin ret.value.elems

\* C7: get_namespace_injectables always returns a set (empty when nothing is
\* found, also for a key with nothing registered in an existing namespace),
\* and filter_by_group applied to that result returns a set without raising.
C7_LookupAndFilterNeverFail ==
    (LookedUp \/ Filtered) => (ret.raised = "none" /\ ~ret.value.is_none)

\* C8: get_namespace_injectables with a namespace that is not a key of
\* NAMESPACES returns the empty set and does not fail; the warning is logged
\* exactly when the registry has no namespace at all.
C8_UnknownNamespaceIsEmpty ==
    (LookedUp /\ args.namespace \notin DOMAIN NAMESPACES) =>
        /\ ret.raised = "none"
        /\ ret.value = Set({})
        /\ ret.warned <=> (DOMAIN NAMESPACES = {})

C8_Witness ==
    /\ LookedUp
    /\ DOMAIN NAMESPACES # {}
    /\ args.namespace \notin DOMAIN NAMESPACES
    /\ ret.value = Set({})

\* C9: get_dependency_registry_type is QUALIFIER iff the dependency is a
\* string; get_namespace_injectables with kind CLASS reads only
\* class_registry and returns its entry for the key, with kind QUALIFIER only
\* qualifier_registry and its entry.
C9_RegistryKindRouting ==
    /\ op = "get_dependency_registry_type" =>
           /\ ret.value \in RegistryType
           /\ ret.value = QUALIFIER <=> args.dependency.is_str
    /\ (LookedUp /\ args.namespace \in DOMAIN NAMESPACES) =>
           LET ns == NAMESPACES[args.namespace]
           IN /\ args.registry_type = CLASS =>
                     /\ ret.consulted = {"class_registry"}
                     /\ args.dependency_name \in DOMAIN ns.class_registry =>
                            ret.value = Set(ns.class_registry[args.dependency_name])
              /\ args.registry_type = QUALIFIER =>
                     /\ ret.consulted = {"qualifier_registry"}
                     /\ args.dependency_name \in DOMAIN ns.qualifier_registry =>
                            ret.value = Set(ns.qualifier_registry[args.dependency_name])

C9_Witness ==
    /\ LookedUp
    /\ args.namespace \in DOMAIN NAMESPACES
    /\ args.registry_type = CLASS
    /\ LET ns == NAMESPACES[args.namespace]
       IN /\ args.dependency_name \in DOMAIN ns.class_registry
          /\ args.dependency_name \in DOMAIN ns.qualifier_registry
          /\ ns.class_registry[args.dependency_name]
                 # ns.qualifier_registry[args.dependency_name]
          /\ ret.value = Set(ns.class_registry[args.dependency_name])

\* C10: the container groups are applied before the per-call selection: when
\* GROUPS is non-empty and some candidate's group is in GROUPS, a required
\* group outside GROUPS yields the empty set, also when candidates of the
\* required group are present.
C10_ContainerGroupsFirst ==
    (/\ Filtered
     /\ ContainerGroups # <<>>
     /\ SomeCandidateInGroups
     /\ args.group # None
     /\ ~In(args.group, ContainerGroups)) =>
        ret = Return(Set({}))

C10_Witness ==
    /\ Filtered /\ ContainerGroups # <<>> /\ SomeCandidateInGroups
    /\ args.group # None /\ ~In(args.group, ContainerGroups)
    /\ NoExclude(args.exclude_groups)
    /\ \E c \in args.matches.elems : c.group = args.group
    /\ ret.value = Set({})

====
